---------------------------- MODULE Spec2Model ----------------------------
(***************************************************************************)
(* The MqttUtility connection manager of the arduino-projects repository:  *)
(* WiFi join with a bounded or unbounded retry budget, one MQTT broker     *)
(* connect per call, health check and reconnect, disconnect.               *)
(*                                                                         *)
(* Three variants of the library live in the repository:                   *)
(*   "V2"     library version 1.1 (MKR1010_Indoor_Plant_Monitor_V2 and     *)
(*            Nano_IoT_Simple_Climate): begin(), end(), _connected         *)
(*   "V1"     common/libraries/Mqtt_Utility_v1: begin(), _init             *)
(*   "V1init" MKR1010_Indoor_Plant_Monitor: init(), _init                  *)
(* The WiFi module and the MqttClient are the environment: every join and  *)
(* every broker connect succeeds or fails nondeterministically, and they   *)
(* count the calls made on them during the most recent library call.       *)
(*                                                                         *)
(* Spec lets any caller use the manager in any order.  SketchSpec runs the *)
(* four sketches of the repository, setup() and then loop(), on the        *)
(* library each is built with; Nano_IoT_Indoor_Air_Monitor, whose library  *)
(* source is not in the repository, runs on library version 1.1.           *)
(***************************************************************************)
EXTENDS Integers, FiniteSets, Sequences, TLC

\* ------------------------------------------------------------------ codes
\* util_conn_status (mqttutility_definitions.h)
CONN_NO_ERR == 123
CONN_NO_PARAMS == 50
CONN_OK == 0
CONN_NO_MQTT == 1
CONN_NO_WIFI == 2
CONN_CONNECTED == 3
CONN_ERR_MQTT == 4
CONN_WIFI_TIMEOUT == 5
CONN_NOT_STARTED == 6

\* upper limit of the retry budget accepted by setWifiRetry
RETRY_MAX == 100

\* _port(1883) of the one-argument constructor
DEFAULT_PORT == 1883

\* MqttClient::connectError() after a successful connect
MQTT_SUCCESS == 0

\* MqttClient::connectError() after a failed connect ("error codes -2 -> 5")
MqttFailCodes == {0 - 2}

\* ----------------------------------------------------------------- bounds
\* most consecutive failed join attempts the environment produces in one call
MaxFails == 4

\* ----------------------------------------------------------------- values
\* the NULL pointer of a const char*
Null == "<NULL>"

Variants == {"V2", "V1", "V1init"}

SsidValues == {Null, "", "net"}
PskValues == {Null, "", "key"}
HostValues == {Null, "broker"}
PortValues == {DEFAULT_PORT}
\* the username and password of one call of setMqttUser()
UserValues == {<<"user", "pass">>}

\* arguments given to setWifiRetry(short i)
RetryInputs == {0 - 1, 0, 3, RETRY_MAX, RETRY_MAX + 1}

\* the device class that stands for "generic sensor"
NoneClass == "None"

\* device classes of the descriptions the sketches publish
DeviceClasses == {NoneClass, "temperature"}

\* mdev / mdevs: one description for every device class
Description(dc) ==
  [device_class |-> dc,
   expires_after |-> "3600",
   name |-> "GreenA Air Temperature",
   state_topic |-> "homeassistant/sensor/greenA/state",
   unique_id |-> "greenatemp",
   unit_of_measurement |-> "C",
   value_template |-> "{{ value_json.temp | round(1) }}",
   configuration_topic |-> "homeassistant/sensor/greenatemp/config"]

Descriptions == {Description(dc) : dc \in DeviceClasses}

\* the description slot of a call that takes no description
NoDescription ==
  [device_class |-> "", expires_after |-> "", name |-> "", state_topic |-> "",
   unique_id |-> "", unit_of_measurement |-> "", value_template |-> "",
   configuration_topic |-> ""]

\* JsonDocument arguments: the members in insertion order, as <<key, value>>
Documents ==
  { << <<"temp", "21.5">>, <<"hum", "40">> >> }

\* topic arguments
Topics == {"homeassistant/sensor/greenA/state"}

\* marker: the operation returns nothing, or has not returned yet
NoRet == 0 - 1

VARIABLES
  variant,        \* which variant of the library this manager is
  ssid, psk,      \* _ssid, _psk
  host, port,     \* _host, _port
  retry,          \* _retry
  user,           \* _user and _pass, which are set together
  connected,      \* _connected (V2), _init (V1, V1init)
  status,         \* _status
  mqttErr,        \* _mqttErr
  wifiUp,         \* WiFi.status() == WL_CONNECTED
  mqttUp,         \* _mqttClient->connected() == 1
  clientErr,      \* _mqttClient->connectError()
  pc,             \* position of the control thread inside begin()/reconnect()
  count,          \* the local attempt counter of begin()/reconnect()
  lastOp,         \* the most recent event: an operation of the manager, or "env"
  arg,            \* its integer argument (setWifiRetry), else NoRet
  ret,            \* its return value, NoRet while running or for void
  openJoins,      \* WiFi.begin(ssid) calls made during the most recent event
  authJoins,      \* WiFi.begin(ssid, psk) calls
  joinOk,         \* a WiFi.begin call of the most recent event returned WL_CONNECTED
  brokerAttempts, \* _mqttClient->connect(host, port) calls
  delays,         \* delay(5000) calls
  teardowns,      \* WiFi.end() calls
  stops,          \* _mqttClient->stop() calls
  healthQueries,  \* getConnectionStatus() calls
  polls,          \* _mqttClient->poll() calls
  health,         \* what getConnectionStatus() returned, NoRet if not called
  everSucceeded,  \* some begin()/init() of this manager has returned CONN_CONNECTED
  call,           \* the arguments of the most recent publish call
  sent,           \* the messages handed to the MqttClient during the most recent event
  borrowed,       \* document keys whose value is the caller's pointer, not a copy
  nested,         \* checkConnection() is running inside configureTopic() (V1init)
  ownsMqttClient, \* the constructor allocated the MqttClient (_ownsMqttClient in V2)
  clientFrees,    \* "delete _mqttClient" executed by this manager
  sketch,         \* the program that owns the manager, "none" for any caller
  skpc,           \* the statement of setup() or loop() the program is at
  chan            \* setup(): the sensor channels described so far

config == <<variant, ssid, psk, host, port, retry, user>>
manager == <<connected, status, mqttErr>>
network == <<wifiUp, mqttUp, clientErr>>
control == <<pc, count>>
record == <<lastOp, arg, ret>>
mock == <<openJoins, authJoins, joinOk, brokerAttempts, delays, teardowns, stops,
          healthQueries, health, polls>>
wire == <<call, sent, borrowed, nested>>
life == <<ownsMqttClient, clientFrees>>
prog == <<sketch, skpc, chan>>
vars == <<config, manager, network, control, record, mock, everSucceeded, wire, life,
          prog>>

\* ---------------------------------------------------------------- helpers
\* begin(): "if (_ssid == NULL || _host == NULL) return CONN_NO_PARAMS;"
\* init():  "if (_ssid == NULL || _psk == NULL ) return CONN_NO_PARAMS;"
MissingParams(v, s, p, h) ==
  IF v = "V1init" THEN s = Null \/ p = Null
  ELSE s = Null \/ h = Null

\* begin(): which WiFi.begin overload the join loop uses.
\*   V2: "_psk == NULL || strcmp(_psk, "") == 0" selects WiFi.begin(_ssid)
\*   V1: "_psk == NULL || strcmp(_psk, "")" (true when the key is NOT empty)
\*   V1init: always WiFi.begin(_ssid, _psk)
UseOpenJoin(v, p) ==
  CASE v = "V2" -> p = Null \/ p = ""
    [] v = "V1" -> p = Null \/ p # ""
    [] OTHER -> FALSE

\* a begin() that forgets that 0 means unlimited
BeginExhausted_NoUnlimited(r, c) == c >= r

\* a begin() that gives up only once the counter has passed the budget
BeginExhausted_OneLate(r, c) == r > 0 /\ c > r

\* begin()/init(): "if (_retry > 0 && count >= _retry)"
BeginExhausted(r, c) == r > 0 /\ c >= r

\* a reconnect() that gives up one attempt early
ReconnectExhausted_OneEarly(r, c) == r > 0 /\ c = r - 1

\* reconnect(): "if (_retry > 0 && _retry == count)"
ReconnectExhausted(r, c) == r > 0 /\ r = c

\* a setWifiRetry() that checks the upper limit only
RetryRejected_NoLowerLimit(i) == i > RETRY_MAX

\* setWifiRetry(): "if (i > 100 || i < 0) return false;"
RetryRejected(i) == i > RETRY_MAX \/ i < 0

\* a getConnectionStatus() that reads the session test the wrong way round
getConnectionStatus_Inverted(w, m) ==
  IF w THEN (IF m THEN CONN_NO_MQTT ELSE CONN_OK) ELSE CONN_NO_WIFI

\* getConnectionStatus()
getConnectionStatus(w, m) ==
  IF w THEN (IF m THEN CONN_OK ELSE CONN_NO_MQTT) ELSE CONN_NO_WIFI

\* getStatus(), getMqttError(): pure accessors
getStatus == status
getMqttError == mqttErr

\* doc[k] = v of a JsonDocument: replaces the member k, or appends it
Put(doc, k, v) ==
  IF \E i \in 1..Len(doc) : doc[i][1] = k
    THEN [i \in 1..Len(doc) |-> IF doc[i][1] = k THEN <<k, v>> ELSE doc[i]]
    ELSE Append(doc, <<k, v>>)

\* the text serializeJson() makes of a document, as a sequence of tokens:
\* "{", then key ":" value for every member in order, "," between, "}"
Serialize(doc) ==
  IF doc = <<>> THEN <<"{", "}">>
  ELSE [i \in 1..(4 * Len(doc) + 1) |->
         CASE i = 1 -> "{"
           [] i % 4 = 2 -> doc[(i + 2) \div 4][1]
           [] i % 4 = 3 -> ":"
           [] i % 4 = 0 -> doc[i \div 4][2]
           [] OTHER -> IF i = 4 * Len(doc) + 1 THEN "}" ELSE ","]

\* measureJson(doc)
measureJson(doc) == Len(Serialize(doc))

\* a publish that passes the measured length itself as the size
SerializerSize_NoIncrement(len) == len

\* "char output[len++]; serializeJson(doc, output, len);": the size given to
\* serializeJson() is the measured length plus one
SerializerSize(len) == len + 1

\* "char output[len++];": the array bound is the value of len before the
\* increment, so the buffer has as many bytes as the measured length
BufferSize(len) == len

\* serializeJson(doc, output, size) followed by print(output): at most size - 1
\* tokens are written, then the terminator; print() stops at the terminator
Output(doc) ==
  LET text == Serialize(doc)
      size == SerializerSize(measureJson(doc))
  IN  SubSeq(text, 1, IF Len(text) < size THEN Len(text) ELSE size - 1)

\* a discovery publish with beginMessage(topic)
ConfigRetain_Default == FALSE

\* configureTopic(): "_mqttClient->beginMessage(topic, true)"
ConfigRetain == TRUE

\* sendPackets(): "_mqttClient->beginMessage(topic)", retain defaults to false
StateRetain == FALSE

\* beginMessage(topic, retain); print(output); endMessage();
Emit(t, r, doc) == <<[topic |-> t, retained |-> r, payload |-> Output(doc)]>>

\* configureTopic(mdev), configureTopic(mdevs*): whether dev_cla is set.
\*   V2: "if(strcmp(dev_cla, "None") != 0)", "if(devConf->device_class != "None")"
\*   V1, V1init: always
SetsDevCla(v, d) == v # "V2" \/ d.device_class # NoneClass

\* configureTopic(mdev), configureTopic(mdevs*): the document built from a description
DiscoveryDoc(v, d) ==
  LET d0 == IF SetsDevCla(v, d) THEN Put(<<>>, "dev_cla", d.device_class) ELSE <<>>
      d1 == Put(d0, "exp_aft", d.expires_after)
      d2 == Put(d1, "name", d.name)
      d3 == Put(d2, "stat_t", d.state_topic)
      d4 == Put(d3, "uniq_id", d.unique_id)
      d5 == Put(d4, "unit_of_meas", d.unit_of_measurement)
  IN  Put(d5, "val_tpl", d.value_template)

\* configureTopic(mdev): the string members the document holds as pointers
\* into the caller's description. V2 and V1init copy every string into a local
\* array first; V1 assigns the const char* members of the description
BorrowedKeys(v, d) ==
  IF v = "V1"
    THEN {"dev_cla", "name", "stat_t", "uniq_id", "unit_of_meas", "val_tpl"}
    ELSE {}

\* a configureTopic() without the guard on _connected
ConfigGuard_Missing(c) == FALSE

\* configureTopic(): "if (!_connected) return;"
ConfigGuard(c) == ~c

\* no publish call has been made
NoCall == [desc |-> NoDescription, doc |-> <<>>, topic |-> ""]

\* the publish record at the start of an event that publishes nothing
ResetWire ==
  /\ call' = NoCall
  /\ sent' = <<>>
  /\ borrowed' = {}
  /\ nested' = FALSE

\* the mock's call counters at the start of an event
ResetCalls ==
  /\ openJoins' = 0
  /\ authJoins' = 0
  /\ joinOk' = FALSE
  /\ brokerAttempts' = 0
  /\ delays' = 0
  /\ teardowns' = 0
  /\ stops' = 0
  /\ polls' = 0

ResetMock ==
  /\ ResetCalls
  /\ ResetWire
  /\ healthQueries' = 0
  /\ health' = NoRet

\* ------------------------------------------------------------------- Init
\* MqttUtility(Client*): nothing configured, "_mqttClient(new MqttClient(client))"
Ctor1 ==
  /\ ownsMqttClient = TRUE
  /\ ssid = Null
  /\ psk = Null
  /\ host = IF variant = "V2" THEN "0.0.0.0" ELSE Null
  /\ port = IF variant = "V2" THEN DEFAULT_PORT ELSE 0

\* MqttUtility(Client*, MqttClient*, ssid, psk, host, port)
Ctor6 ==
  /\ ownsMqttClient = FALSE
  /\ ssid \in SsidValues
  /\ psk \in PskValues
  /\ host \in HostValues
  /\ port \in PortValues

\* the manager after its constructor has run
Constructed ==
  /\ variant \in Variants
  /\ (Ctor1 \/ Ctor6)
  /\ retry = 0
  /\ user = Null
  /\ connected = FALSE
  /\ status = CONN_NO_ERR
  /\ mqttErr = CONN_NO_ERR
  /\ wifiUp = FALSE
  /\ mqttUp = FALSE
  /\ clientErr = MQTT_SUCCESS
  /\ pc = "idle"
  /\ count = 0
  /\ lastOp = "none"
  /\ arg = NoRet
  /\ ret = NoRet
  /\ openJoins = 0
  /\ authJoins = 0
  /\ joinOk = FALSE
  /\ brokerAttempts = 0
  /\ delays = 0
  /\ teardowns = 0
  /\ stops = 0
  /\ healthQueries = 0
  /\ health = NoRet
  /\ polls = 0
  /\ everSucceeded = FALSE
  /\ call = NoCall
  /\ sent = <<>>
  /\ borrowed = {}
  /\ nested = FALSE
  /\ clientFrees = 0

\* the manager is driven by any caller, in any order
NoProgram ==
  /\ sketch = "none"
  /\ skpc = "none"
  /\ chan = 0

Init ==
  /\ Constructed
  /\ NoProgram

\* ---------------------------------------------------------------- setters
setWiFiNetworkCall(s, p) ==
  /\ pc = "idle"
  /\ ssid' = s
  /\ psk' = p
  /\ lastOp' = "setWiFiNetwork"
  /\ arg' = NoRet
  /\ ret' = NoRet
  /\ ResetMock
  /\ UNCHANGED <<variant, host, port, retry, user, manager, network, control, everSucceeded>>
  /\ UNCHANGED life

setWiFiNetwork ==
  /\ \E s \in SsidValues, p \in PskValues : setWiFiNetworkCall(s, p)
  /\ UNCHANGED prog

setMqttHostCall(h, q) ==
  /\ pc = "idle"
  /\ host' = h
  /\ port' = q
  /\ lastOp' = "setMqttHost"
  /\ arg' = NoRet
  /\ ret' = NoRet
  /\ ResetMock
  /\ UNCHANGED <<variant, ssid, psk, retry, user, manager, network, control, everSucceeded>>
  /\ UNCHANGED life

setMqttHost ==
  /\ \E h \in HostValues, q \in PortValues : setMqttHostCall(h, q)
  /\ UNCHANGED prog

setWifiRetryCall(i) ==
  /\ pc = "idle"
  /\ arg' = i
  /\ IF RetryRejected(i)
       THEN retry' = retry /\ ret' = 0
       ELSE retry' = i /\ ret' = 1
  /\ lastOp' = "setWifiRetry"
  /\ ResetMock
  /\ UNCHANGED <<variant, ssid, psk, host, port, user, manager, network, control, everSucceeded>>
  /\ UNCHANGED life

setWifiRetry ==
  /\ \E i \in RetryInputs : setWifiRetryCall(i)
  /\ UNCHANGED prog

\* setMqttUser(): "_user = username; _pass = password;
\*   return _mqttClient->setUsernamePassword(_user, _pass);"
setMqttUserCall(u) ==
  /\ pc = "idle"
  /\ user' = u
  /\ lastOp' = "setMqttUser"
  /\ arg' = NoRet
  /\ ret' = NoRet
  /\ ResetMock
  /\ UNCHANGED <<variant, ssid, psk, host, port, retry, manager, network, control,
                 everSucceeded>>
  /\ UNCHANGED life

setMqttUser ==
  /\ \E u \in UserValues : setMqttUserCall(u)
  /\ UNCHANGED prog

\* ------------------------------------------------------------ begin()/init()
\* begin(), init(): the parameter check and the entry into the join loop
beginCall ==
  /\ pc = "idle"
  /\ lastOp' = "begin"
  /\ arg' = NoRet
  /\ ResetMock
  /\ count' = 0
  /\ IF MissingParams(variant, ssid, psk, host)
       THEN ret' = CONN_NO_PARAMS /\ pc' = "idle"
       ELSE ret' = NoRet /\ pc' = "begin_join"
  /\ UNCHANGED <<config, manager, network, everSucceeded>>
  /\ UNCHANGED life

begin ==
  /\ beginCall
  /\ UNCHANGED prog

\* a join loop that retries at once
JoinFailed_NoDelay ==
  /\ count' = count + 1
  /\ delays' = delays

\* begin(), init(), reconnect(): the body of the join loop past the budget
\* test: "count++; delay(5000);"
JoinFailed ==
  /\ count' = count + 1
  /\ delays' = delays + 1

\* begin(), init(): one evaluation of the loop condition "WiFi.begin(...) !=
\* WL_CONNECTED" and, when the join failed, the loop body
beginJoin ==
  /\ pc = "begin_join"
  /\ \E ok \in BOOLEAN :
       /\ ~ok => count < MaxFails
       /\ wifiUp' = ok
       /\ mqttUp' = FALSE
       /\ joinOk' = ok
       /\ IF ok
            THEN /\ pc' = "begin_mqtt"
                 /\ UNCHANGED <<count, delays, status, ret>>
            ELSE IF BeginExhausted(retry, count)
              THEN /\ status' = CONN_WIFI_TIMEOUT
                   /\ ret' = CONN_WIFI_TIMEOUT
                   /\ pc' = "idle"
                   /\ count' = 0
                   /\ UNCHANGED delays
              ELSE /\ JoinFailed
                   /\ UNCHANGED <<pc, status, ret>>
  /\ IF UseOpenJoin(variant, psk)
       THEN openJoins' = openJoins + 1 /\ UNCHANGED authJoins
       ELSE authJoins' = authJoins + 1 /\ UNCHANGED openJoins
  /\ UNCHANGED <<config, connected, mqttErr, clientErr, lastOp, arg, brokerAttempts,
                 teardowns, stops, healthQueries, health, polls, everSucceeded, wire>>
  /\ UNCHANGED life
  /\ UNCHANGED prog

\* a begin() that forgets WiFi.end() when the broker connect failed
BeginBrokerFailed_NoTeardown ==
  /\ mqttErr' = clientErr'
  /\ status' = CONN_ERR_MQTT
  /\ ret' = CONN_ERR_MQTT
  /\ pc' = "idle"
  /\ UNCHANGED <<wifiUp, teardowns, connected>>

\* a begin() that tries the broker again instead of returning
BeginBrokerFailed_Retrying ==
  /\ wifiUp' = FALSE
  /\ teardowns' = teardowns + 1
  /\ mqttErr' = clientErr'
  /\ status' = CONN_ERR_MQTT
  /\ ret' = NoRet
  /\ pc' = "begin_mqtt"
  /\ UNCHANGED connected

\* begin(), init(): the broker connect failed:
\*   WiFi.end(); _mqttErr = connectError(); _status = CONN_ERR_MQTT; return _status;
BeginBrokerFailed ==
  /\ wifiUp' = FALSE
  /\ teardowns' = teardowns + 1
  /\ mqttErr' = clientErr'
  /\ status' = CONN_ERR_MQTT
  /\ ret' = CONN_ERR_MQTT
  /\ pc' = "idle"
  /\ UNCHANGED connected

\* a begin() that reports CONN_OK for a successful start
BeginSucceeded_ReturnsOk ==
  /\ connected' = TRUE
  /\ status' = CONN_OK
  /\ ret' = CONN_OK
  /\ pc' = "idle"
  /\ UNCHANGED <<wifiUp, teardowns, mqttErr>>

\* begin(), init(): the broker connect succeeded:
\*   _connected = true; _status = CONN_CONNECTED; return _status;
BeginSucceeded ==
  /\ connected' = TRUE
  /\ status' = CONN_CONNECTED
  /\ ret' = CONN_CONNECTED
  /\ pc' = "idle"
  /\ UNCHANGED <<wifiUp, teardowns, mqttErr>>

\* begin(), init(): "_mqttClient->connect(_host, _port)" and what follows it
beginMqtt ==
  /\ pc = "begin_mqtt"
  /\ brokerAttempts' = brokerAttempts + 1
  /\ \/ /\ mqttUp' = TRUE
        /\ clientErr' = MQTT_SUCCESS
        /\ BeginSucceeded
     \/ /\ mqttUp' = FALSE
        /\ clientErr' \in MqttFailCodes
        /\ BeginBrokerFailed
  /\ count' = 0
  /\ everSucceeded' = (everSucceeded \/ ret' = CONN_CONNECTED)
  /\ UNCHANGED <<config, lastOp, arg, openJoins, authJoins, joinOk, delays, stops,
                 healthQueries, health, polls, wire>>
  /\ UNCHANGED life
  /\ UNCHANGED prog

\* ------------------------------------------------------- checkConnection()
\* a checkConnection() without the guard on _connected
NotStarted_Unguarded(c) == FALSE

\* a checkConnection() whose guard tests _connected instead of !_connected
NotStarted_Inverted(c) == c

\* checkConnection(): "if (!_connected) return CONN_NOT_STARTED;"
NotStarted(c) == ~c

\* a reconnect() whose CONN_NO_MQTT case has no body and falls into CONN_NO_WIFI
ReconnectCase_FallsThrough(st) ==
  IF st = CONN_OK THEN "idle" ELSE "reconnect_join"

\* a reconnect() without the CONN_NO_WIFI case
ReconnectCase_NoRejoin(st) ==
  IF st = CONN_NO_MQTT THEN "reconnect_mqtt" ELSE "idle"

\* reconnect(): "switch (status)", the case the control thread enters
ReconnectCase(st) ==
  CASE st = CONN_NO_MQTT -> "reconnect_mqtt"
    [] st = CONN_NO_WIFI -> "reconnect_join"
    [] OTHER -> "idle"

\* checkConnection(), with getConnectionStatus() and the entry into reconnect()
checkConnectionCall ==
  /\ pc = "idle"
  /\ lastOp' = "checkConnection"
  /\ arg' = NoRet
  /\ ResetCalls
  /\ ResetWire
  /\ count' = 0
  /\ IF NotStarted(connected)
       THEN /\ ret' = CONN_NOT_STARTED
            /\ pc' = "idle"
            /\ healthQueries' = 0
            /\ health' = NoRet
       ELSE /\ healthQueries' = 1
            /\ health' = getConnectionStatus(wifiUp, mqttUp)
            /\ pc' = ReconnectCase(health')
            /\ ret' = IF pc' = "idle" THEN CONN_OK ELSE NoRet
  /\ UNCHANGED <<config, manager, network, everSucceeded>>
  /\ UNCHANGED life

checkConnection ==
  /\ checkConnectionCall
  /\ UNCHANGED prog

\* where reconnect() returns to: checkConnection() called by the sketch, or
\* "this->checkConnection();" inside configureTopic(mdev*) of V1init
AfterReconnect == IF nested THEN "config_publish" ELSE "idle"

\* what the sketch sees of the code reconnect() returns: configureTopic(mdev*)
\* of V1init discards it
ReconnectResult(code) == IF nested THEN NoRet ELSE code

\* reconnect(), case CONN_NO_WIFI: one evaluation of the loop condition
\* "WiFi.begin(_ssid, _psk) != WL_CONNECTED" and, when the join failed, the body
reconnectJoin ==
  /\ pc = "reconnect_join"
  /\ \E ok \in BOOLEAN :
       /\ ~ok => count < MaxFails
       /\ wifiUp' = ok
       /\ mqttUp' = FALSE
       /\ joinOk' = ok
       /\ IF ok
            THEN /\ pc' = "reconnect_mqtt"
                 /\ UNCHANGED <<count, delays, ret>>
            ELSE IF ReconnectExhausted(retry, count)
              THEN /\ ret' = ReconnectResult(CONN_WIFI_TIMEOUT)
                   /\ pc' = AfterReconnect
                   /\ count' = 0
                   /\ UNCHANGED delays
              ELSE /\ JoinFailed
                   /\ UNCHANGED <<pc, ret>>
  /\ authJoins' = authJoins + 1
  /\ UNCHANGED <<config, manager, clientErr, lastOp, arg, openJoins, brokerAttempts,
                 teardowns, stops, healthQueries, health, polls, everSucceeded, wire>>
  /\ UNCHANGED life
  /\ UNCHANGED prog

\* a reconnect() that keeps the network when the broker connect failed
ReconnectBrokerFailed_NoTeardown ==
  /\ UNCHANGED <<wifiUp, teardowns>>
  /\ ret' = ReconnectResult(CONN_ERR_MQTT)

\* reconnect(): the broker connect failed: "WiFi.end(); return CONN_ERR_MQTT;"
ReconnectBrokerFailed ==
  /\ wifiUp' = FALSE
  /\ teardowns' = teardowns + 1
  /\ ret' = ReconnectResult(CONN_ERR_MQTT)

\* reconnect(), cases CONN_NO_MQTT and CONN_NO_WIFI:
\*   "if (!_mqttClient->connect(_host, _port)) { WiFi.end(); return CONN_ERR_MQTT; }"
reconnectMqtt ==
  /\ pc = "reconnect_mqtt"
  /\ brokerAttempts' = brokerAttempts + 1
  /\ \/ /\ mqttUp' = TRUE
        /\ clientErr' = MQTT_SUCCESS
        /\ ret' = ReconnectResult(CONN_OK)
        /\ UNCHANGED <<wifiUp, teardowns>>
     \/ /\ mqttUp' = FALSE
        /\ clientErr' \in MqttFailCodes
        /\ ReconnectBrokerFailed
  /\ pc' = AfterReconnect
  /\ nested' = nested
  /\ count' = 0
  /\ UNCHANGED <<config, manager, lastOp, arg, openJoins, authJoins, joinOk, delays,
                 stops, healthQueries, health, polls, everSucceeded, call, sent, borrowed>>
  /\ UNCHANGED life
  /\ UNCHANGED prog

\* -------------------------------------------------------------------- end()
\* an end() that tears down without asking getConnectionStatus()
EndApplies_Unconditional(st) == TRUE

\* end(): "if(getConnectionStatus() == CONN_OK)"
EndApplies(st) == st = CONN_OK

\* end() (library version 1.1 only)
end ==
  /\ pc = "idle"
  /\ variant = "V2"
  /\ lastOp' = "end"
  /\ arg' = NoRet
  /\ ret' = NoRet
  /\ openJoins' = 0
  /\ authJoins' = 0
  /\ joinOk' = FALSE
  /\ brokerAttempts' = 0
  /\ delays' = 0
  /\ polls' = 0
  /\ ResetWire
  /\ healthQueries' = 1
  /\ health' = getConnectionStatus(wifiUp, mqttUp)
  /\ IF EndApplies(health')
       THEN /\ stops' = 1
            /\ teardowns' = 1
            /\ mqttUp' = FALSE
            /\ wifiUp' = FALSE
            /\ connected' = FALSE
       ELSE /\ stops' = 0
            /\ teardowns' = 0
            /\ UNCHANGED <<mqttUp, wifiUp, connected>>
  /\ UNCHANGED <<config, status, mqttErr, clientErr, control, everSucceeded>>
  /\ UNCHANGED life
  /\ UNCHANGED prog

\* ----------------------------------------------------------- configureTopic()
\* a configureTopic() that returns before any I/O
ConfigSkipped ==
  /\ sent' = <<>>
  /\ borrowed' = {}
  /\ nested' = FALSE
  /\ healthQueries' = 0
  /\ health' = NoRet
  /\ pc' = "idle"

\* configureTopic(mdev devConf) of V2, configureTopic(mdev*) of V1 and V1init;
\* V1init calls checkConnection() between serializeJson() and beginMessage()
configureTopicCall(d) ==
  /\ pc = "idle"
  /\ lastOp' = "configureTopic"
  /\ arg' = NoRet
  /\ ret' = NoRet
  /\ ResetCalls
  /\ count' = 0
  /\ call' = [desc |-> d, doc |-> <<>>, topic |-> ""]
  /\ IF ConfigGuard(connected)
       THEN ConfigSkipped
       ELSE /\ borrowed' = BorrowedKeys(variant, d)
            /\ IF variant = "V1init"
                 THEN /\ nested' = TRUE
                      /\ healthQueries' = 1
                      /\ health' = getConnectionStatus(wifiUp, mqttUp)
                      /\ pc' = IF ReconnectCase(health') = "idle"
                                 THEN "config_publish"
                                 ELSE ReconnectCase(health')
                      /\ sent' = <<>>
                 ELSE /\ nested' = FALSE
                      /\ healthQueries' = 0
                      /\ health' = NoRet
                      /\ pc' = "idle"
                      /\ sent' = Emit(d.configuration_topic, ConfigRetain,
                                      DiscoveryDoc(variant, d))
  /\ UNCHANGED <<config, manager, network, everSucceeded>>
  /\ UNCHANGED life

configureTopic ==
  /\ \E d \in Descriptions : configureTopicCall(d)
  /\ UNCHANGED prog

\* configureTopic(mdev*) of V1init after checkConnection() has returned:
\*   beginMessage(device_config->configuration_topic, true); print; endMessage
configPublish ==
  /\ pc = "config_publish"
  /\ sent' = Emit(call.desc.configuration_topic, ConfigRetain,
                  DiscoveryDoc(variant, call.desc))
  /\ nested' = FALSE
  /\ pc' = "idle"
  /\ UNCHANGED <<config, manager, network, count, record, mock, everSucceeded,
                 call, borrowed>>
  /\ UNCHANGED life
  /\ UNCHANGED prog

\* configureTopic(mdevs* devConf), library version 1.1: the members of the
\* description are Arduino Strings, which the document copies
configureTopicStrCall(d) ==
  /\ pc = "idle"
  /\ variant = "V2"
  /\ lastOp' = "configureTopicStr"
  /\ arg' = NoRet
  /\ ret' = NoRet
  /\ ResetCalls
  /\ healthQueries' = 0
  /\ health' = NoRet
  /\ borrowed' = {}
  /\ nested' = FALSE
  /\ call' = [desc |-> d, doc |-> <<>>, topic |-> ""]
  /\ sent' = IF ConfigGuard(connected) THEN <<>>
             ELSE Emit(d.configuration_topic, ConfigRetain, DiscoveryDoc(variant, d))
  /\ UNCHANGED <<config, manager, network, control, everSucceeded>>
  /\ UNCHANGED life

configureTopicStr ==
  /\ \E d \in Descriptions : configureTopicStrCall(d)
  /\ UNCHANGED prog

\* configureTopic(JsonDocument doc, const char* topic)
configureTopicDoc ==
  /\ pc = "idle"
  /\ lastOp' = "configureTopicDoc"
  /\ arg' = NoRet
  /\ ret' = NoRet
  /\ ResetCalls
  /\ healthQueries' = 0
  /\ health' = NoRet
  /\ borrowed' = {}
  /\ nested' = FALSE
  /\ \E doc \in Documents, t \in Topics :
       /\ call' = [desc |-> NoDescription, doc |-> doc, topic |-> t]
       /\ sent' = IF ConfigGuard(connected) THEN <<>>
                  ELSE Emit(t, ConfigRetain, doc)
  /\ UNCHANGED <<config, manager, network, control, everSucceeded>>
  /\ UNCHANGED life
  /\ UNCHANGED prog

\* -------------------------------------------------------------- sendPackets()
\* sendPackets(JsonDocument doc, const char* topic)
sendPacketsCall(doc, t) ==
  /\ pc = "idle"
  /\ lastOp' = "sendPackets"
  /\ arg' = NoRet
  /\ ret' = NoRet
  /\ ResetCalls
  /\ healthQueries' = 0
  /\ health' = NoRet
  /\ borrowed' = {}
  /\ nested' = FALSE
  /\ call' = [desc |-> NoDescription, doc |-> doc, topic |-> t]
  /\ sent' = Emit(t, StateRetain, doc)
  /\ UNCHANGED <<config, manager, network, control, everSucceeded>>
  /\ UNCHANGED life

sendPackets ==
  /\ \E doc \in Documents, t \in Topics : sendPacketsCall(doc, t)
  /\ UNCHANGED prog

\* ----------------------------------------------------------------- pollMqtt()
\* pollMqtt(): "if (!_connected) return;"
PollGuard(c) == ~c

\* pollMqtt(): "if (!_connected) return; return _mqttClient->poll();"
pollMqttCall ==
  /\ pc = "idle"
  /\ lastOp' = "pollMqtt"
  /\ arg' = NoRet
  /\ ret' = NoRet
  /\ openJoins' = 0
  /\ authJoins' = 0
  /\ joinOk' = FALSE
  /\ brokerAttempts' = 0
  /\ delays' = 0
  /\ teardowns' = 0
  /\ stops' = 0
  /\ healthQueries' = 0
  /\ health' = NoRet
  /\ ResetWire
  /\ polls' = (IF PollGuard(connected) THEN 0 ELSE 1)
  /\ UNCHANGED <<config, manager, network, control, everSucceeded>>
  /\ UNCHANGED life

pollMqtt ==
  /\ pollMqttCall
  /\ UNCHANGED prog

\* ------------------------------------------------------------------- accessors
\* getStatus(): "return _status;", getMqttError(): "return _mqttErr;"
getters ==
  /\ pc = "idle"
  /\ \/ lastOp' = "getStatus" /\ ret' = getStatus
     \/ lastOp' = "getMqttError" /\ ret' = getMqttError
  /\ arg' = NoRet
  /\ ResetMock
  /\ UNCHANGED <<config, manager, network, control, everSucceeded>>
  /\ UNCHANGED life
  /\ UNCHANGED prog

\* ------------------------------------------------------------- ~MqttUtility()
\* ~MqttUtility(): whether the destructor executes "delete _mqttClient".
\*   V2: "if (_ownsMqttClient)"
\*   V1, V1init: "if (_mqttClient != nullptr)"
DeletesClient(v, owns) == IF v = "V2" THEN owns ELSE TRUE

\* ~MqttUtility(): the manager goes out of scope between two calls
destroy ==
  /\ pc = "idle"
  /\ pc' = "destroyed"
  /\ clientFrees' = clientFrees + (IF DeletesClient(variant, ownsMqttClient) THEN 1 ELSE 0)
  /\ lastOp' = "destroy"
  /\ arg' = NoRet
  /\ ret' = NoRet
  /\ ResetMock
  /\ UNCHANGED <<config, manager, network, count, everSucceeded, ownsMqttClient>>
  /\ UNCHANGED prog

\* ------------------------------------------------------------- environment
\* the access point goes away: the session over it is lost too
wifiDrops ==
  /\ pc = "idle"
  /\ wifiUp
  /\ wifiUp' = FALSE
  /\ mqttUp' = FALSE
  /\ lastOp' = "env"
  /\ arg' = NoRet
  /\ ret' = NoRet
  /\ ResetMock
  /\ UNCHANGED <<config, manager, clientErr, control, everSucceeded>>
  /\ UNCHANGED life
  /\ UNCHANGED prog

\* the broker session ends while the network stays
mqttDrops ==
  /\ pc = "idle"
  /\ mqttUp
  /\ mqttUp' = FALSE
  /\ lastOp' = "env"
  /\ arg' = NoRet
  /\ ret' = NoRet
  /\ ResetMock
  /\ UNCHANGED <<config, manager, wifiUp, clientErr, control, everSucceeded>>
  /\ UNCHANGED life
  /\ UNCHANGED prog

\* ------------------------------------------------------------ specification
Next ==
  \/ setWiFiNetwork
  \/ setMqttHost
  \/ setWifiRetry
  \/ setMqttUser
  \/ begin
  \/ beginJoin
  \/ beginMqtt
  \/ checkConnection
  \/ reconnectJoin
  \/ reconnectMqtt
  \/ end
  \/ configureTopic
  \/ configPublish
  \/ configureTopicStr
  \/ configureTopicDoc
  \/ sendPackets
  \/ pollMqtt
  \/ getters
  \/ destroy
  \/ wifiDrops
  \/ mqttDrops

Spec == Init /\ [][Next]_vars

\* ------------------------------------------------------------------ claims
\* WiFi.begin calls of the most recent event, in either mode
joins == openJoins + authJoins

\* C1: setWifiRetry(i) with i outside [0,100] returns false and keeps the
\* retry budget it had; with i in [0,100] it stores i and returns true.
C1_RetryRange ==
  [][lastOp' = "setWifiRetry" =>
       IF arg' < 0 \/ arg' > 100
         THEN ret' = 0 /\ retry' = retry
         ELSE ret' = 1 /\ retry' = arg']_vars

C1_Witness ==
  lastOp = "setWifiRetry" /\ arg = 101 /\ ret = 0 /\ retry = 3

\* C2: begin()/init() with the network name or the broker host unset or empty
\* returns CONN_NO_PARAMS at once and makes no join, no broker connect and
\* no delay.
C2_NoParamsWithoutIO ==
  (lastOp = "begin" /\ (ssid \in {Null, ""} \/ host \in {Null, ""})) =>
    /\ pc = "idle"
    /\ ret = CONN_NO_PARAMS
    /\ joins = 0
    /\ brokerAttempts = 0
    /\ delays = 0

\* C3: a begin() that ends in CONN_WIFI_TIMEOUT, every join having failed,
\* has made exactly as many join attempts as the retry budget.
C3_AttemptsEqualBudget ==
  (lastOp = "begin" /\ pc = "idle" /\ ret = CONN_WIFI_TIMEOUT) =>
    (~joinOk /\ joins = retry)

\* C4: with retry budget 0, begin() never returns CONN_WIFI_TIMEOUT, is still
\* in the join loop as long as every join has failed, and is past the loop
\* only after a join that succeeded, which was its last: success on attempt
\* k means k attempts and k - 1 delays.
C4_UnlimitedRetry ==
  (lastOp = "begin" /\ retry = 0) =>
    /\ ret # CONN_WIFI_TIMEOUT
    /\ pc = "begin_join" => (~joinOk /\ joins = count /\ delays = count)
    /\ (joins > 0 /\ ~joinOk) => pc = "begin_join"
    /\ pc = "begin_mqtt" => joinOk
    /\ joinOk => joins = delays + 1

C4_Witness ==
  /\ lastOp = "begin"
  /\ retry = 0
  /\ pc = "begin_mqtt"
  /\ joinOk
  /\ joins = 3
  /\ delays = 2

\* C5: every join attempt of begin()/init() is in open mode if and only if
\* the pre-shared key is NULL or empty, and in authenticated mode otherwise.
C5_JoinModeFollowsKey ==
  lastOp = "begin" =>
    /\ openJoins > 0 => psk \in {Null, ""}
    /\ authJoins > 0 => psk \notin {Null, ""}

\* C6: one begin() or checkConnection() call connects to the broker at most
\* once: once when its join succeeded or when it found the network present
\* and the session absent, never when it ended in CONN_WIFI_TIMEOUT; it
\* returns right after the one attempt, CONN_ERR_MQTT meaning that attempt.
C6_BrokerConnectAtMostOnce ==
  lastOp \in {"begin", "checkConnection"} =>
    /\ brokerAttempts <= 1
    /\ pc # "idle" => brokerAttempts = 0
    /\ (pc = "idle" /\ joinOk) => brokerAttempts = 1
    /\ (pc = "idle" /\ health = CONN_NO_MQTT) => (brokerAttempts = 1 /\ joins = 0)
    /\ (pc = "idle" /\ ret = CONN_WIFI_TIMEOUT) => brokerAttempts = 0
    /\ (pc = "idle" /\ ret = CONN_ERR_MQTT) => brokerAttempts = 1

C6_Witness ==
  /\ lastOp = "checkConnection"
  /\ pc = "idle"
  /\ health = CONN_NO_WIFI
  /\ joinOk
  /\ ret = CONN_ERR_MQTT
  /\ brokerAttempts = 1

C8_SuccessReturnsOk ==
  (lastOp = "begin" /\ pc = "idle" /\ joinOk /\ brokerAttempts = 1
     /\ clientErr = MQTT_SUCCESS) =>
    (connected /\ ret = CONN_OK)

\* C8 as amended: a begin() whose join and broker connect both succeeded has
\* set the connected flag, returned CONN_CONNECTED (3, not CONN_OK, 0) and
\* recorded it as the status.
C8_SuccessReturnsConnected ==
  (lastOp = "begin" /\ pc = "idle" /\ joinOk /\ brokerAttempts = 1
     /\ clientErr = MQTT_SUCCESS) =>
    /\ connected
    /\ ret = 3
    /\ getStatus = 3
    /\ wifiUp
    /\ mqttUp

C8_Witness ==
  /\ lastOp = "begin"
  /\ pc = "idle"
  /\ joinOk
  /\ clientErr = MQTT_SUCCESS
  /\ connected
  /\ ret = CONN_CONNECTED
  /\ delays = 2

\* C9: checkConnection() on a manager none of whose begin() calls has
\* succeeded returns CONN_NOT_STARTED and calls neither the WiFi module nor
\* the MqttClient.
C9_NotStartedBeforeSuccess ==
  (lastOp = "checkConnection" /\ ~everSucceeded) =>
    /\ pc = "idle"
    /\ ret = CONN_NOT_STARTED
    /\ healthQueries = 0
    /\ joins = 0
    /\ brokerAttempts = 0
    /\ delays = 0
    /\ teardowns = 0
    /\ stops = 0

C9_Witness ==
  /\ lastOp = "checkConnection"
  /\ ~everSucceeded
  /\ ret = CONN_NOT_STARTED
  /\ getStatus = CONN_ERR_MQTT

\* C10: checkConnection() on a connected manager whose network and session
\* are both present returns CONN_OK at once, with no join, broker connect,
\* teardown or delay, and changes neither the manager, its configuration
\* nor the network; so does every repetition.
C10_HealthyCheckIsNoOp ==
  [][(pc = "idle" /\ lastOp' = "checkConnection" /\ connected /\ wifiUp /\ mqttUp) =>
       /\ pc' = "idle"
       /\ ret' = CONN_OK
       /\ joins' = 0
       /\ brokerAttempts' = 0
       /\ teardowns' = 0
       /\ stops' = 0
       /\ delays' = 0
       /\ UNCHANGED <<config, manager, network>>]_vars

C10_Witness ==
  /\ lastOp = "checkConnection"
  /\ pc = "idle"
  /\ connected
  /\ wifiUp
  /\ mqttUp
  /\ health = CONN_OK
  /\ ret = CONN_OK
  /\ brokerAttempts = 0


\* C11: a checkConnection() on a started manager that finds the network present
\* and the session absent makes no join attempt and exactly one broker connect;
\* it returns CONN_ERR_MQTT when that connect fails and CONN_OK when it succeeds.
C11_SessionOnlyReconnect ==
  [][ /\ (pc = "idle" /\ lastOp' = "checkConnection" /\ connected /\ wifiUp /\ ~mqttUp)
          => (pc' = "reconnect_mqtt" /\ joins' = 0 /\ brokerAttempts' = 0)
      /\ (pc = "reconnect_mqtt" /\ lastOp = "checkConnection" /\ health = CONN_NO_MQTT)
          => /\ pc' = "idle"
             /\ joins' = 0
             /\ delays' = 0
             /\ brokerAttempts' = 1
             /\ ret' = IF mqttUp' THEN CONN_OK ELSE CONN_ERR_MQTT
             /\ mqttUp' = (clientErr' = MQTT_SUCCESS) ]_vars

C11_Witness ==
  /\ lastOp = "checkConnection"
  /\ health = CONN_NO_MQTT
  /\ pc = "idle"
  /\ brokerAttempts = 1
  /\ ret = CONN_ERR_MQTT

\* C12: a checkConnection() that finds the network absent joins and connects as
\* begin() does for the same configuration and the same environment outcomes:
\* every join attempt uses the join mode begin() uses (open when the key is
\* absent or empty), the loop gives up after the same number of attempts and
\* backoffs, exactly one broker connect follows a successful join, and the
\* result is CONN_WIFI_TIMEOUT, CONN_ERR_MQTT or CONN_OK.
C12_RejoinLikeConnect ==
  (lastOp = "checkConnection" /\ health = CONN_NO_WIFI) =>
    /\ (IF UseOpenJoin(variant, psk) THEN authJoins = 0 ELSE openJoins = 0)
    /\ (pc = "reconnect_join" =>
          (ReconnectExhausted(retry, count) <=> BeginExhausted(retry, count)))
    /\ (pc = "idle" =>
          /\ ret \in {CONN_WIFI_TIMEOUT, CONN_ERR_MQTT, CONN_OK}
          /\ (ret = CONN_WIFI_TIMEOUT) = ~joinOk
          /\ brokerAttempts = (IF joinOk THEN 1 ELSE 0)
          /\ (ret = CONN_OK) = mqttUp
          /\ joins = delays + 1)

\* C13: once begin()/init() or checkConnection() has returned a code, getStatus()
\* returns that same code (CONN_NO_PARAMS, CONN_NOT_STARTED, CONN_WIFI_TIMEOUT,
\* CONN_ERR_MQTT, CONN_OK or CONN_CONNECTED).
C13_StatusIsLastResult ==
  (lastOp \in {"begin", "checkConnection"} /\ pc = "idle") => getStatus = ret

\* C14: end() called while the network and the session are both present stops
\* the session, tears down the network join and leaves the manager not
\* connected; called in any other condition it stops nothing, tears down
\* nothing and changes nothing of the manager or the network.
C14_EndOnlyWhenHealthy ==
  [][ (pc = "idle" /\ lastOp' = "end") =>
        IF wifiUp /\ mqttUp
          THEN /\ stops' = 1
               /\ teardowns' = 1
               /\ ~wifiUp'
               /\ ~mqttUp'
               /\ ~connected'
          ELSE /\ stops' = 0
               /\ teardowns' = 0
               /\ UNCHANGED <<config, manager, network>> ]_vars

C14_Witness ==
  /\ lastOp = "end"
  /\ stops = 1
  /\ teardowns = 1
  /\ ~connected
  /\ everSucceeded

\* the three overloads of configureTopic()
ConfigOps == {"configureTopic", "configureTopicStr", "configureTopicDoc"}

\* C15: every overload of configureTopic() called while the manager is not
\* connected (no begin() has succeeded, or end() has torn the connection down)
\* returns at once: no message is handed to the MqttClient, no health query, no
\* join, no broker connect, and nothing of the manager or the network changes.
C15_NoDiscoveryWhenNotConnected ==
  [][ (pc = "idle" /\ lastOp' \in ConfigOps /\ ~connected) =>
        /\ pc' = "idle"
        /\ sent' = <<>>
        /\ healthQueries' = 0
        /\ joins' = 0
        /\ brokerAttempts' = 0
        /\ teardowns' = 0
        /\ UNCHANGED <<config, manager, network>> ]_vars

C15_Witness ==
  /\ lastOp \in ConfigOps
  /\ call.desc \in Descriptions
  /\ ~connected
  /\ everSucceeded
  /\ sent = <<>>

\* the keys of a serialized document, read back from its text
PayloadKeys(p) == {p[i] : i \in {j \in 1..Len(p) : j % 4 = 2}}

\* the keys every discovery payload has
DescriptionKeys == {"exp_aft", "name", "stat_t", "uniq_id", "unit_of_meas", "val_tpl"}

\* C16: the payload published for a device description has exactly the keys
\* exp_aft, name, stat_t, uniq_id, unit_of_meas, val_tpl, and dev_cla as well
\* exactly when the device class of the description is not "None".
C16_DiscoveryKeys ==
  (lastOp \in {"configureTopic", "configureTopicStr"} /\ sent # <<>>) =>
    PayloadKeys(sent[1].payload) =
      DescriptionKeys \cup
        (IF call.desc.device_class # NoneClass THEN {"dev_cla"} ELSE {})

PayloadPairs(p) == [i \in 1..((Len(p) - 1) \div 4) |-> <<p[4 * i - 2], p[4 * i]>>]

\* the text is a complete JSON object
PayloadComplete(p) == Len(p) >= 2 /\ p[1] = "{" /\ p[Len(p)] = "}"

\* C18: sendPackets(doc, topic) hands exactly one message to the MqttClient,
\* not retained, addressed to topic, whose payload is a complete object with
\* the members of doc in insertion order: none missing, added or altered.
C18_TelemetryVerbatim ==
  lastOp = "sendPackets" =>
    /\ Len(sent) = 1
    /\ ~sent[1].retained
    /\ sent[1].topic = call.topic
    /\ PayloadComplete(sent[1].payload)
    /\ PayloadPairs(sent[1].payload) = call.doc

C18_Witness ==
  /\ lastOp = "sendPackets"
  /\ Len(call.doc) = 2
  /\ Len(sent) = 1
  /\ sent[1].payload = <<"{", "temp", ":", "21.5", ",", "hum", ":", "40", "}">>

\* C19: a configureTopic() that takes a description with string members copies
\* every one of them into storage of its own before the document is serialized:
\* no member of the document is a pointer into the caller's description.
C19_CopyBeforeSerialize ==
  lastOp \in {"configureTopic", "configureTopicStr"} => borrowed = {}

\* C20: a manager constructed with only a transport allocated its MqttClient
\* and deletes it exactly once, in its destructor; a manager constructed with
\* an MqttClient of the sketch never deletes it.
C20_ClientOwnership ==
  clientFrees = (IF pc = "destroyed" /\ ownsMqttClient THEN 1 ELSE 0)

\* every WiFi.begin() and every connect() made during the most recent call
\* succeeded
AllAttemptsSucceeded ==
  /\ delays = 0
  /\ (joins > 0 => joinOk)
  /\ (brokerAttempts > 0 => clientErr = MQTT_SUCCESS)

\* C21: on a manager some begin() of which has succeeded, a checkConnection()
\* all of whose join and broker connect attempts succeed returns CONN_OK and
\* leaves the network and the session present; and no step of a
\* checkConnection() changes the flag that makes later calls return
\* CONN_NOT_STARTED.
C21_SelfHealing ==
  [][ lastOp' = "checkConnection" =>
        /\ (pc' = "idle" /\ everSucceeded' /\ AllAttemptsSucceeded') =>
             (ret' = CONN_OK /\ wifiUp' /\ mqttUp')
        /\ connected' = connected ]_vars

\* C21, amended: the same for a manager whose connected flag is set (some
\* begin() has succeeded and no end() has torn the connection down since).
C21_SelfHealingWhileConnected ==
  [][ lastOp' = "checkConnection" =>
        /\ (pc' = "idle" /\ connected' /\ AllAttemptsSucceeded') =>
             (ret' = CONN_OK /\ wifiUp' /\ mqttUp')
        /\ connected' = connected ]_vars

C21_Witness ==
  /\ lastOp = "checkConnection"
  /\ pc = "idle"
  /\ health = CONN_NO_WIFI
  /\ authJoins = 1
  /\ joinOk
  /\ brokerAttempts = 1
  /\ ret = CONN_OK
  /\ wifiUp
  /\ mqttUp

\* the join attempts the loop of begin() makes from attempt counter c on, with
\* budget r > 0, when every join fails
RECURSIVE BeginAttempts(_, _)
BeginAttempts(r, c) ==
  IF BeginExhausted(r, c) THEN 1 ELSE 1 + BeginAttempts(r, c + 1)

\* C24: with the same budget N > 0 and joins that always fail, the rejoin loop
\* of checkConnection() makes one join attempt more or one fewer than the loop
\* of begin() before it returns CONN_WIFI_TIMEOUT.
C24_PathsDisagreeByOne ==
  (lastOp = "checkConnection" /\ pc = "idle" /\ ret = CONN_WIFI_TIMEOUT) =>
    (joins - BeginAttempts(retry, 0)) \in {0 - 1, 1}

\* C24, amended: begin() and the rejoin loop of checkConnection() both return
\* CONN_WIFI_TIMEOUT after N + 1 failed join attempts and N backoff delays.
C24_PathsAgree ==
  (lastOp \in {"begin", "checkConnection"} /\ pc = "idle"
     /\ ret = CONN_WIFI_TIMEOUT) =>
    /\ joins = retry + 1
    /\ joins = BeginAttempts(retry, 0)
    /\ delays = retry
    /\ ~joinOk

C24_Witness ==
  /\ lastOp = "checkConnection"
  /\ pc = "idle"
  /\ ret = CONN_WIFI_TIMEOUT
  /\ retry = 3
  /\ authJoins = 4

\* the positions of the control thread inside the two join loops
JoinLoops == {"begin_join", "reconnect_join"}

\* the positions of the control thread at the broker connect
BrokerSteps == {"begin_mqtt", "reconnect_mqtt"}

C26_BackoffAfterFailedJoin ==
  [][ /\ pc \in JoinLoops =>
           /\ joins' = joins + 1
           /\ IF joinOk'
                THEN delays' = delays /\ count' = count /\ pc' \in BrokerSteps
                ELSE IF pc' = pc
                  THEN count' = count + 1 /\ delays' = delays + 1
                  ELSE delays' = delays
      /\ pc \in BrokerSteps => (delays' = delays /\ joins' = joins) ]_vars

C26_Witness ==
  /\ lastOp = "checkConnection"
  /\ pc = "idle"
  /\ joinOk
  /\ authJoins = 3
  /\ delays = 2
  /\ ret = CONN_OK

\* C26 as worded: every failed join attempt of a join loop raises the attempt
\* counter by one and is followed by one delay(5000); a successful join
\* attempt is followed by none.
C26_EveryFailedJoinBacksOff ==
  [][ (pc \in JoinLoops) =>
        (IF joinOk'
           THEN delays' = delays /\ count' = count
           ELSE count' = count + 1 /\ delays' = delays + 1) ]_vars

\* C27: checkConnection() returns CONN_NOT_STARTED exactly when no begin() of
\* the manager has ever succeeded; once one has, every later checkConnection(),
\* also one made after end(), calls getConnectionStatus() instead.
C27_NotStartedIffNeverSucceeded ==
  lastOp = "checkConnection" =>
    /\ (ret = CONN_NOT_STARTED) <=> ~everSucceeded
    /\ everSucceeded => healthQueries = 1

\* C27, amended: checkConnection() returns CONN_NOT_STARTED exactly when the
\* connected flag is clear, which it is before the first successful begin()
\* and again after an end() that tore the connection down; while the flag is
\* set it calls getConnectionStatus() once, and without the flag never.
C27_NotStartedIffFlagClear ==
  lastOp = "checkConnection" =>
    /\ (ret = CONN_NOT_STARTED) <=> ~connected
    /\ healthQueries = (IF connected THEN 1 ELSE 0)
    /\ ~everSucceeded => ~connected
    /\ (everSucceeded /\ variant # "V2") => connected

C27_Witness ==
  /\ lastOp = "checkConnection"
  /\ everSucceeded
  /\ ~connected
  /\ ret = CONN_NOT_STARTED
  /\ healthQueries = 0
  /\ ~wifiUp

\* C30: a checkConnection() that returns CONN_ERR_MQTT, from the session-only
\* case or from the rejoin case of reconnect(), has called WiFi.end() before it
\* returns and has left the connected flag set: the network is absent, and the
\* checkConnection() that follows it finds CONN_NO_WIFI and enters the join loop.
C30_BrokerErrorLeavesNetwork ==
  [][ /\ (lastOp' = "checkConnection" /\ ret' = CONN_ERR_MQTT) =>
           /\ pc \in BrokerSteps
           /\ health' \in {CONN_NO_MQTT, CONN_NO_WIFI}
           /\ teardowns' = teardowns + 1
           /\ ~wifiUp'
           /\ connected'
           /\ connected' = connected
      /\ (lastOp = "checkConnection" /\ ret = CONN_ERR_MQTT
            /\ lastOp' = "checkConnection" /\ pc = "idle") =>
           /\ health' = CONN_NO_WIFI
           /\ pc' = "reconnect_join"
           /\ ret' = NoRet ]_vars

C30_Witness ==
  /\ lastOp = "checkConnection"
  /\ pc = "idle"
  /\ ret = CONN_ERR_MQTT
  /\ health = CONN_NO_MQTT
  /\ brokerAttempts = 1
  /\ teardowns = 1
  /\ joins = 0
  /\ ~wifiUp
  /\ connected

\* the operations that write the connection configuration
Setters == {"setWiFiNetwork", "setMqttHost", "setWifiRetry", "setMqttUser"}

\* C28: while a session is active (a begin() has succeeded and no end() has
\* torn it down) no setter call changes the network name, the key, the broker
\* host or port, the credentials or the retry budget.
C28_ConfigImmutableWhileConnected ==
  [][ (connected /\ wifiUp /\ mqttUp /\ lastOp' \in Setters) =>
        UNCHANGED <<ssid, psk, host, port, user, retry>> ]_vars

\* the operations that are not begin(), checkConnection() or end()
OtherOps ==
  Setters \cup ConfigOps \cup {"getStatus", "getMqttError", "pollMqtt", "sendPackets"}

\* C29: the connected flag, the status, the broker error, the network and the
\* session are changed by begin(), checkConnection() and end() only: no step
\* of a setter, of getStatus(), getMqttError(), pollMqtt(), sendPackets() or
\* of a configureTopic() overload changes one of them, calls WiFi.begin(),
\* connect(), WiFi.end() or stop().
C29_OnlyConnectionCallsChangeConnection ==
  [][ lastOp' \in OtherOps =>
        /\ UNCHANGED <<connected, status, mqttErr, wifiUp, mqttUp>>
        /\ joins' = 0
        /\ brokerAttempts' = 0
        /\ teardowns' = 0
        /\ stops' = 0 ]_vars

\* ------------------------------------------------------------- the sketches
\* the programs of the repository that own a manager
Sketches == {"PlantMonitorV2", "PlantMonitor", "SimpleClimate", "AirMonitor"}

\* the library each sketch is built with: MKR1010_Indoor_Plant_Monitor brings
\* the variant with init(), the other three library version 1.1
LibraryOf(sk) == IF sk = "PlantMonitor" THEN "V1init" ELSE "V2"

\* "const char stateTopic[]", "const char state_topic[]"
StateTopicOf(sk) ==
  CASE sk = "PlantMonitorV2" -> "homeassistant/sensor/greenA/state"
    [] sk = "PlantMonitor" -> "homeassistant/sensor/greenB/state"
    [] sk = "SimpleClimate" -> "homeassistant/sensor/blueA/state"
    [] sk = "AirMonitor" -> "homeassistant/sensor/blueC/state"

\* "const char deviceName[]", "const char device_name[]"
DeviceNameOf(sk) ==
  CASE sk = "PlantMonitorV2" -> "GreenA"
    [] sk = "SimpleClimate" -> "BlueA"
    [] sk = "AirMonitor" -> "BlueC"

\* "const char deviceNameLower[]", "const char device_name_lower[]"
DeviceNameLowerOf(sk) ==
  CASE sk = "PlantMonitorV2" -> "greenA"
    [] sk = "SimpleClimate" -> "blueA"
    [] sk = "AirMonitor" -> "blueC"

\* "const unsigned short sensor_timeout = 3600", as the document prints it
SensorTimeout == "3600"

\* makeSenArray(): the moisture sensors whose pin is defined (MST_PIN_1 ...)
MstCount(sk) ==
  CASE sk = "PlantMonitorV2" -> 5
    [] sk = "PlantMonitor" -> 4
    [] OTHER -> 0

\* makeSenArray(): snprintf(id, "%d", k+1) for the sensor at index k, here
\* numbered from 1
MstId(i) == ToString(i)

\* makeSenArray(): snprintf(val_id, "%s%d", "smst", k+1)
MstValId(i) == "smst" \o ToString(i)

\* "const char *sensors[5][num_of_sensors]" of the two Nano sketches:
\* long name, short name, device class, unit, formatting (a NULL unit is "")
Sensors(sk) ==
  CASE sk = "SimpleClimate" ->
         << [long |-> "Temperature", short |-> "temp", class |-> "temperature",
             unit |-> "C", fmt |-> " | round(1)"],
            [long |-> "Humidity", short |-> "humi", class |-> "humidity",
             unit |-> "%", fmt |-> " | round(1)"] >>
    [] sk = "AirMonitor" ->
         << [long |-> "Temperature", short |-> "temp", class |-> "temperature",
             unit |-> "C", fmt |-> " | round(1)"],
            [long |-> "Humidity", short |-> "humi", class |-> "humidity",
             unit |-> "%", fmt |-> " | round(1)"],
            [long |-> "Pressure", short |-> "pres", class |-> "pressure",
             unit |-> "hPa", fmt |-> " | float / 100 | round(2)"],
            [long |-> "AQI", short |-> "aqi", class |-> "aqi",
             unit |-> "", fmt |-> ""],
            [long |-> "TVOC", short |-> "tvoc",
             class |-> "volatile_organic_compounds_parts",
             unit |-> "ppb", fmt |-> ""],
            [long |-> "CO2 Concentration", short |-> "co2c",
             class |-> "carbon_dioxide", unit |-> "ppm", fmt |-> ""],
            [long |-> "CO2 Level", short |-> "co2l", class |-> NoneClass,
             unit |-> "", fmt |-> ""] >>
    [] OTHER -> <<>>

\* the sensor channels of a sketch: the calls of configureTopic() in setup()
NumChannels(sk) ==
  CASE sk = "PlantMonitorV2" -> MstCount(sk) + 3
    [] sk = "PlantMonitor" -> MstCount(sk) + 2
    [] OTHER -> Len(Sensors(sk))

\* an mdev / mdevs initializer, in the order of the members of the struct
Mdev(dc, name, st, uid, unit, tpl, ct) ==
  [device_class |-> dc,
   expires_after |-> SensorTimeout,
   name |-> name,
   state_topic |-> st,
   unique_id |-> uid,
   unit_of_measurement |-> unit,
   value_template |-> tpl,
   configuration_topic |-> ct]

\* MKR1010_Indoor_Plant_Monitor_V2, setup(): the description of channel i:
\* the moisture sensors, then SHT31 temperature and humidity, then Si1151
GreenADescription(i) ==
  LET sk == "PlantMonitorV2"
      lower == DeviceNameLowerOf(sk)
  IN  CASE i <= MstCount(sk) ->
             Mdev("moisture",
                  DeviceNameOf(sk) \o " Soil Moisture",
                  StateTopicOf(sk),
                  lower \o "soil" \o MstId(i),
                  "%",
                  "{{ value_json." \o MstValId(i) \o " }}",
                  "homeassistant/sensor/" \o lower \o "mst" \o MstId(i) \o "/config")
        [] i = MstCount(sk) + 1 ->
             Mdev("temperature",
                  DeviceNameOf(sk) \o " Air Temperature",
                  StateTopicOf(sk),
                  lower \o "temp",
                  "C",
                  "{{ value_json.temp | round(1) }}",
                  "homeassistant/sensor/" \o lower \o "temp/config")
        [] i = MstCount(sk) + 2 ->
             Mdev("humidity",
                  DeviceNameOf(sk) \o " Air Humidity",
                  StateTopicOf(sk),
                  lower \o "humi",
                  "C",
                  "{{ value_json.humi | round(1) }}",
                  "homeassistant/sensor/" \o lower \o "humi/config")
        [] OTHER ->
             Mdev("temperature",
                  DeviceNameOf(sk) \o " Sunlight",
                  StateTopicOf(sk),
                  lower \o "sun",
                  "C",
                  "{{ value_json.sun }}",
                  "homeassistant/sensor/" \o lower \o "sun/config")

\* MKR1010_Indoor_Plant_Monitor: makeConfTopic(id, body)
makeConfTopic(id, body) == "homeassistant/sensor/" \o body \o id \o "/config"

\* MKR1010_Indoor_Plant_Monitor: makeNameOrId(id, body)
makeNameOrId(id, body) == body \o id

\* MKR1010_Indoor_Plant_Monitor: makeValueTemplate(val_id)
makeValueTemplate(valId) == "{{ value_json." \o valId \o " }}"

\* MKR1010_Indoor_Plant_Monitor, setup(): the description of channel i: the
\* moisture sensors, then DHT22 temperature and humidity
GreenBDescription(i) ==
  LET sk == "PlantMonitor"
  IN  CASE i <= MstCount(sk) ->
             Mdev("moisture",
                  makeNameOrId(MstId(i), "GreenB Soil Moisture "),
                  StateTopicOf(sk),
                  makeNameOrId(MstId(i), "greenBsoil"),
                  "%",
                  makeValueTemplate(MstValId(i)),
                  makeConfTopic(MstId(i), "greenBM"))
        [] i = MstCount(sk) + 1 ->
             Mdev("temperature",
                  "GreenB Air Temperature",
                  StateTopicOf(sk),
                  "greenBtemp",
                  "C",
                  "{{ value_json.temp | round(2) }}",
                  "homeassistant/sensor/greenBT/config")
        [] OTHER ->
             Mdev("humidity",
                  "GreenB Air Humidity",
                  StateTopicOf(sk),
                  "greenBhum",
                  "%",
                  "{{ value_json.hum | round(1) }}",
                  "homeassistant/sensor/greenBH/config")

\* Nano_IoT_Simple_Climate, Nano_IoT_Indoor_Air_Monitor, setup(): the
\* description the loop over the sensor table builds for column i
BlueDescription(sk, i) ==
  LET row == Sensors(sk)[i]
      uid == DeviceNameLowerOf(sk) \o row.short
  IN  Mdev(row.class,
           DeviceNameOf(sk) \o " " \o row.long,
           StateTopicOf(sk),
           uid,
           row.unit,
           "{{ value_json." \o row.short \o row.fmt \o " }}",
           "homeassistant/sensor/" \o uid \o "/config")

\* setup(): the description passed to the i-th call of configureTopic()
SetupDescription(sk, i) ==
  CASE sk = "PlantMonitorV2" -> GreenADescription(i)
    [] sk = "PlantMonitor" -> GreenBDescription(i)
    [] OTHER -> BlueDescription(sk, i)

\* sendData(): the key under which the value of channel i is written to the
\* document
ChannelKey(sk, i) ==
  CASE sk = "PlantMonitorV2" ->
         (CASE i <= MstCount(sk) -> MstValId(i)
            [] i = MstCount(sk) + 1 -> "temp"
            [] i = MstCount(sk) + 2 -> "hum"
            [] OTHER -> "sun")
    [] sk = "PlantMonitor" ->
         (CASE i <= MstCount(sk) -> MstValId(i)
            [] i = MstCount(sk) + 1 -> "temp"
            [] OTHER -> "hum")
    [] OTHER -> Sensors(sk)[i].short

\* a measured value, as the document prints it
Measured == "50"

\* sendData(): the document after the assignments for the channels 1 .. n
RECURSIVE SendDataDoc(_, _)
SendDataDoc(sk, n) ==
  IF n = 0 THEN <<>>
  ELSE Put(SendDataDoc(sk, n - 1), ChannelKey(sk, n), Measured)

\* setup(): "mqttUtility.setWifiRetry(5);"
SketchRetry == 5

\* the first statement of setup() that calls the manager
FirstCall(sk) == IF sk = "PlantMonitor" THEN "setMqttUser" ELSE "setWiFiNetwork"

\* the manager as the sketch declares it, before setup() runs:
\*   "MqttUtility mqttUtility(wifiClient);"
\*   "MqttUtility mqttUtil(wifiClient, mqttClient, ssid, psk, host, port);"
\* the arguments of the second are character arrays, never NULL
SketchInit ==
  /\ sketch \in Sketches
  /\ variant = LibraryOf(sketch)
  /\ Constructed
  /\ IF sketch = "PlantMonitor"
       THEN ~ownsMqttClient /\ ssid # Null /\ psk # Null /\ host # Null
       ELSE ownsMqttClient
  /\ skpc = FirstCall(sketch)
  /\ chan = 0

\* setup(): "mqttUtility.setWiFiNetwork(ssid, psk);"
skSetWiFiNetwork ==
  /\ skpc = "setWiFiNetwork"
  /\ \E s \in SsidValues \ {Null}, p \in PskValues \ {Null} : setWiFiNetworkCall(s, p)
  /\ skpc' = "setMqttHost"
  /\ UNCHANGED <<sketch, chan>>

\* setup(): "mqttUtility.setMqttHost(host, port);"
skSetMqttHost ==
  /\ skpc = "setMqttHost"
  /\ \E h \in HostValues \ {Null}, q \in PortValues : setMqttHostCall(h, q)
  /\ skpc' = "setWifiRetry"
  /\ UNCHANGED <<sketch, chan>>

\* setup(): "mqttUtility.setWifiRetry(5);", then
\* "if (strlen(user) > 0 && strlen(pass) > 0)" with the secrets of the build
skSetWifiRetry ==
  /\ skpc = "setWifiRetry"
  /\ setWifiRetryCall(SketchRetry)
  /\ skpc' \in {"setMqttUser", "begin"}
  /\ UNCHANGED <<sketch, chan>>

\* setup(): "mqttUtility.setMqttUser(user, pass);"
skSetMqttUser ==
  /\ skpc = "setMqttUser"
  /\ \E u \in UserValues : setMqttUserCall(u)
  /\ skpc' = "begin"
  /\ UNCHANGED <<sketch, chan>>

\* setup(): the call in "if (mqttUtility.begin() != CONN_CONNECTED)",
\* "if(mqttUtil.init() != CONN_CONNECTED)"
skBegin ==
  /\ skpc = "begin"
  /\ beginCall
  /\ skpc' = "begun"
  /\ UNCHANGED <<sketch, chan>>

\* setup(): begin() has returned something else than CONN_CONNECTED: "while(1)"
Halted == skpc = "begun" /\ pc = "idle" /\ ret # CONN_CONNECTED

\* setup(): the next "configureTopic(&dev)", reached when begin() returned
\* CONN_CONNECTED
skConfigure ==
  /\ skpc \in {"begun", "configure"}
  /\ ~Halted
  /\ chan < NumChannels(sketch)
  /\ IF sketch = "PlantMonitor"
       THEN configureTopicCall(SetupDescription(sketch, chan + 1))
       ELSE configureTopicStrCall(SetupDescription(sketch, chan + 1))
  /\ chan' = chan + 1
  /\ skpc' = IF chan' = NumChannels(sketch) THEN "loop" ELSE "configure"
  /\ UNCHANGED sketch

\* loop(): "mqttUtility.pollMqtt();", then "if (current - previous >= interval)"
\* which leads to checkConnection() or, in MKR1010_Indoor_Plant_Monitor, to
\* sendData() at once
skPoll ==
  /\ skpc = "loop"
  /\ pollMqttCall
  /\ skpc' \in {"loop", IF sketch = "PlantMonitor" THEN "sendData" ELSE "checkConnection"}
  /\ UNCHANGED <<sketch, chan>>

\* loop(): "mqttUtility.checkConnection(); measureData();"
skCheck ==
  /\ skpc = "checkConnection"
  /\ checkConnectionCall
  /\ skpc' = "sendData"
  /\ UNCHANGED <<sketch, chan>>

\* sendData(): the document is built, then "mqttUtility.checkConnection();"
skSendCheck ==
  /\ skpc = "sendData"
  /\ checkConnectionCall
  /\ skpc' = "sendPackets"
  /\ UNCHANGED <<sketch, chan>>

\* sendData(): "mqttUtility.sendPackets(doc, stateTopic);"
skSendPackets ==
  /\ skpc = "sendPackets"
  /\ sendPacketsCall(SendDataDoc(sketch, NumChannels(sketch)), StateTopicOf(sketch))
  /\ skpc' = "loop"
  /\ UNCHANGED <<sketch, chan>>

\* the network or the session is lost while the sketch runs; the sketch tests
\* the value begin() returned before anything else happens
skDrops ==
  /\ skpc # "begun"
  /\ (wifiDrops \/ mqttDrops)

SketchNext ==
  \/ skSetWiFiNetwork
  \/ skSetMqttHost
  \/ skSetWifiRetry
  \/ skSetMqttUser
  \/ skBegin
  \/ beginJoin
  \/ beginMqtt
  \/ skConfigure
  \/ configPublish
  \/ skPoll
  \/ skCheck
  \/ skSendCheck
  \/ skSendPackets
  \/ reconnectJoin
  \/ reconnectMqtt
  \/ skDrops

SketchSpec == SketchInit /\ [][SketchNext]_vars

\* the key a Home Assistant value template "{{ value_json.<key><format> }}"
\* reads from the telemetry record: the characters after "value_json." up to
\* the first blank
TemplateHead == "{{ value_json."

RECURSIVE KeyEnd(_, _)
KeyEnd(t, i) ==
  IF i > Len(t) \/ SubSeq(t, i, i) = " " THEN i - 1 ELSE KeyEnd(t, i + 1)

TemplateKey(t) ==
  IF Len(t) >= Len(TemplateHead) /\ SubSeq(t, 1, Len(TemplateHead)) = TemplateHead
    THEN SubSeq(t, Len(TemplateHead) + 1, KeyEnd(t, Len(TemplateHead) + 1))
    ELSE ""

\* the value of member k of a published payload, "" if it has none
Member(p, k) ==
  LET hits == {i \in 1..Len(PayloadPairs(p)) : PayloadPairs(p)[i][1] = k}
  IN  IF hits = {} THEN "" ELSE PayloadPairs(p)[CHOOSE i \in hits : TRUE][2]

\* C22: in every sketch, for every sensor channel, the key under which
\* sendData() writes the channel's value into the telemetry record that is
\* published is the key that the val_tpl of the channel's description reads.
C22_TelemetryKeyIsTemplateKey ==
  (sketch \in Sketches /\ lastOp = "sendPackets" /\ sent # <<>>) =>
    \A i \in 1..NumChannels(sketch) :
      /\ ChannelKey(sketch, i) \in PayloadKeys(sent[1].payload)
      /\ TemplateKey(SetupDescription(sketch, i).value_template) = ChannelKey(sketch, i)

\* C23: every description a sketch publishes goes to the topic
\* homeassistant/sensor/<unique_id>/config, with the uniq_id of the payload.
C23_ConfigTopicFromUniqueId ==
  (sketch \in Sketches /\ lastOp \in ConfigOps /\ sent # <<>>) =>
    sent[1].topic =
      "homeassistant/sensor/" \o Member(sent[1].payload, "uniq_id") \o "/config"

\* C31: when begin() or checkConnection() has returned CONN_ERR_MQTT, the
\* manager has recorded connectError() of that failed broker connect:
\* getMqttError() called right after returns the code of that attempt.
C31_BrokerErrorCodeRecorded ==
  (lastOp \in {"begin", "checkConnection"} /\ pc = "idle" /\ ret = CONN_ERR_MQTT) =>
    /\ getMqttError = clientErr
    /\ getMqttError \in MqttFailCodes

\* the codes of a begin() or checkConnection() that did not succeed on the
\* network or on the broker
FailureCodes == {CONN_WIFI_TIMEOUT, CONN_ERR_MQTT}

\* C32: after a begin() or checkConnection() that returned CONN_WIFI_TIMEOUT
\* or CONN_ERR_MQTT the connected flag is clear, and a configureTopic() or
\* pollMqtt() that follows such a checkConnection() hands no message to the
\* MqttClient and does not poll it.
C32_FlagOnlyAfterSuccess ==
  [][ (lastOp \in {"begin", "checkConnection"} /\ pc = "idle"
         /\ ret \in FailureCodes) =>
        /\ ~connected
        /\ (lastOp' \in ConfigOps \cup {"pollMqtt"}) =>
             (sent' = <<>> /\ polls' = 0) ]_vars

\* C33: between two calls, getStatus() returns CONN_CONNECTED exactly when the
\* connected flag is set, also after an end() that tore the connection down
\* and after a begin() that failed on a connected manager.
C33_StatusConnectedIffFlag ==
  pc = "idle" => ((getStatus = CONN_CONNECTED) <=> connected)

\* C34: sendPackets() on a manager whose connected flag is clear, before any
\* successful begin() or after end(), hands no message to the MqttClient.
C34_NoTelemetryWhenNotConnected ==
  (lastOp = "sendPackets" /\ ~connected) => sent = <<>>

\* C35: in the loop of every sketch, sendPackets() is called only if the
\* checkConnection() just before it in sendData() returned CONN_OK: when that
\* call has returned anything else, the sketch does not go on to publish.
C35_TelemetryOnlyAfterOk ==
  [][ (sketch \in Sketches /\ lastOp = "checkConnection" /\ pc = "idle"
         /\ ret # CONN_OK) =>
        lastOp' # "sendPackets" ]_vars

\* the document a publish has serialized: the one built from the description
\* in the descriptor overloads, the caller's document otherwise
C36_Serialized ==
  IF call.desc # NoDescription THEN DiscoveryDoc(variant, call.desc) ELSE call.doc

\* C36: in every publish path (sendPackets() and each configureTopic()
\* overload) that has emitted a message, the size limit handed to
\* serializeJson() is no larger than the allocated size of the output buffer.
C36_SizeLimitWithinBuffer ==
  (lastOp \in ConfigOps \cup {"sendPackets"} /\ pc = "idle" /\ sent # <<>>) =>
    SerializerSize(measureJson(C36_Serialized)) <= BufferSize(measureJson(C36_Serialized))

=============================================================================
